---- MODULE Spec2Model ----
(***************************************************************************)
(* Instance placement scriptlet engine (package scriptlet,                 *)
(* InstancePlacementRun).  One invocation is modelled: the two snapshot    *)
(* transactions, the builtin environment, program load, the cancellation   *)
(* watcher goroutine, program initialisation, entry point resolution, the  *)
(* entry point call with the builtins the script may call, and the return. *)
(* The script and the collaborators (database, remote members) are the     *)
(* environment: their choices are nondeterministic.                        *)
(***************************************************************************)
EXTENDS Integers, Sequences, FiniteSets, TLC

\* Bounds of the model.
MaxMembers == 2          \* longest candidateMembers slice
MaxCalls == 2            \* most builtin calls one script makes

\* Names a candidate member can have, and a name no member has.
MemberNames == {"a", "b"}
UnknownName == "z"
\* A call whose arguments starlark.UnpackArgs rejects.
BadArgs == "<bad args>"
ArgNames == MemberNames \cup {UnknownName}
\* s.ServerName: the local member (in the candidate set or not).
ServerName == "a"
NoName == "-"

\* The nil *db.NodeInfo; a non-nil pointer &candidateMembers[i] is the index i.
NULL == 0

VARIABLES
    candidateMembers,   \* the slice passed in: member names; the address of i is i
    callerDone,         \* the caller's context has been cancelled
    ctxDone,            \* the context derived at line 27 is done
    pc,                 \* position of InstancePlacementRun
    envBound,           \* the env dictionary holds the builtins
    watcher,            \* the goroutine of lines 519-522
    threadCancelled,    \* thread.Cancel has been called
    entry,              \* what globals["instance_placement"] is
    targetMember,       \* the closure variable of line 32
    inflight,           \* the remote call a builtin is blocked in
    result,             \* what InstancePlacementRun returned
    nCalls,             \* history: builtin calls executed
    entryCalls,         \* history: times starlark.Call ran (line 548)
    lastCall,           \* history: the last builtin call, its name and argument
    lastTarget,         \* history: name given to the last set_target call
    unknownTarget,      \* history: a set_target call named no candidate
    scriptReturn,       \* history: value the entry point returned
    connects,           \* history: addresses cluster.Connect was given
    req,                \* the request passed in (immutable)
    resources,          \* history: what the last get_instance_resources resolved
    readFailed,         \* history: a read of the snapshot build failed
    cancelCalls,        \* history: times thread.Cancel was called
    invs,               \* concurrent invocations, each with its own locals
    \* package main, networks_utils.go
    networkOVNChassis,  \* var networkOVNChassis *bool
    heartbeatData,      \* the heartbeat of the last call
    hbCount,            \* history: heartbeats processed
    restarted,          \* history: the last heartbeat called networkRestartOVN
    restartFailed,      \* history: that call returned an error
    failedEver,         \* history: some networkRestartOVN call returned an error
    lastRun,            \* history: runChassis of the last heartbeat
    ovnErr,             \* what the last networkUpdateOVNChassis returned
    \* package drivers, the ploop driver, one volume
    dirExists,          \* vol.MountPath() exists
    diskCreated,        \* the image and its DiskDescriptor.xml exist
    mounted,            \* the image is mounted on MountPath()/rootfs
    handles,            \* disk handles opened and not closed
    refCount,           \* the volume's mount reference counter
    counted,            \* history: callers holding a mount the counter counts
    uncounted,          \* history: callers holding a nil of MountVolume it does not
    ops,                \* history: driver calls made
    lastOp,             \* history: the last driver call
    lastErr,            \* what the last driver call returned
    failedAt            \* history: the step the last CreateVolume failed at

vars == <<candidateMembers, callerDone, ctxDone, pc, envBound, watcher,
          threadCancelled, entry, targetMember, inflight, result, nCalls,
          entryCalls, lastCall, lastTarget, unknownTarget, scriptReturn,
          connects, req, resources, readFailed, cancelCalls, invs,
          networkOVNChassis, heartbeatData, hbCount, restarted, restartFailed,
          failedEver, lastRun, ovnErr,
          dirExists, diskCreated, mounted, handles, refCount, counted, uncounted,
          ops, lastOp, lastErr, failedAt>>

\* The state of networkUpdateOVNChassis.
ovnVars == <<networkOVNChassis, heartbeatData, hbCount, restarted, restartFailed,
             failedEver, lastRun, ovnErr>>

\* The state of the ploop driver's volume.
ploopVars == <<dirExists, diskCreated, mounted, handles, refCount, counted,
               uncounted, ops, lastOp, lastErr, failedAt>>

\* What no step of one invocation writes: its inputs, and the other invocations.
fixed == <<candidateMembers, req, invs, ovnVars, ploopVars>>

\* History written by single steps only.
aux == <<resources, readFailed, cancelCalls>>

hist == <<nCalls, entryCalls, lastCall, lastTarget, unknownTarget, scriptReturn, connects>>

----------------------------------------------------------------------------
\* Errors: the message InstancePlacementRun wraps with, and the root cause.

NilErr == [msg |-> "", cause |-> "nil"]
Pending == [msg |-> "", cause |-> "pending"]
Err(msg, cause) == [msg |-> msg, cause |-> cause]

ContextCanceled == "context canceled"
\* starlark's error once thread.Cancel("Request finished") was called.
ThreadCancelledCause == "Starlark computation cancelled: Request finished"
ScriptError == "script error"
DatabaseError == "database error"
RemoteError == "remote error"
LocalError == "local error"
MarshalError == "marshalling error"
InvalidMember == "Invalid member name"
InvalidArgs == "invalid arguments"
NonCallable == "invalid call of non-function"
LoadError == "program load error"
MissingEntry == "Scriptlet missing instance_placement function"
BadReturn == "Failed with unexpected return value"

NoCall == [fn |-> "none", addr |-> NULL]

MemberSeqs == UNION {[1..n -> MemberNames] : n \in 0..MaxMembers}

\* ---------------------------------------------------------------------
\* The request (req.Type, req.Config, req.Devices) and the parsers that
\* get_instance_resources applies to it.  A config value is the sequence
\* of its characters; "" is the empty sequence, also what Go returns for
\* a key that is absent from the map.
\* ---------------------------------------------------------------------
Container == "container"
VM == "virtual-machine"

DigitChars == <<"0", "1", "2", "3", "4", "5", "6", "7", "8", "9">>
Digits == {DigitChars[i] : i \in 1..10}
DigitVal(c) == (CHOOSE i \in 1..10 : DigitChars[i] = c) - 1

IsDigits(s) == Len(s) > 0 /\ \A i \in 1..Len(s) : s[i] \in Digits

RECURSIVE DecimalVal(_)
DecimalVal(s) ==
    IF s = <<>> THEN 0
    ELSE 10 * DecimalVal(SubSeq(s, 1, Len(s) - 1)) + DigitVal(s[Len(s)])

\* strconv.ParseUint(s, 10, 64): digits only, no sign, not empty.
ParseUint(s) ==
    IF IsDigits(s) THEN [ok |-> TRUE, val |-> DecimalVal(s)]
    ELSE [ok |-> FALSE, val |-> 0]

\* Position of the first c in s, 0 when there is none.
IndexOf(s, c) ==
    IF \E i \in 1..Len(s) : s[i] = c
    THEN CHOOSE i \in 1..Len(s) : s[i] = c /\ \A j \in 1..(i - 1) : s[j] # c
    ELSE 0

RECURSIVE Split(_, _)
Split(s, c) ==
    IF IndexOf(s, c) = 0 THEN <<s>>
    ELSE <<SubSeq(s, 1, IndexOf(s, c) - 1)>>
             \o Split(SubSeq(s, IndexOf(s, c) + 1, Len(s)), c)

\* One element of a CPU set: an identifier "n" or a range "lo-hi".
CpuChunk(ch) ==
    IF IsDigits(ch) THEN [ok |-> TRUE, cpus |-> {DecimalVal(ch)}]
    ELSE IF /\ IndexOf(ch, "-") > 0
            /\ IsDigits(SubSeq(ch, 1, IndexOf(ch, "-") - 1))
            /\ IsDigits(SubSeq(ch, IndexOf(ch, "-") + 1, Len(ch)))
         THEN [ok |-> TRUE,
               cpus |-> DecimalVal(SubSeq(ch, 1, IndexOf(ch, "-") - 1))
                          .. DecimalVal(SubSeq(ch, IndexOf(ch, "-") + 1, Len(ch)))]
         ELSE [ok |-> FALSE, cpus |-> {}]

\* resources.ParseCpuset: the identifiers of a comma separated CPU set.
ParseCpuset(s) ==
    LET chunks == Split(s, ",")
        each == [i \in 1..Len(chunks) |-> CpuChunk(chunks[i])]
    IN IF \A i \in 1..Len(chunks) : each[i].ok /\ each[i].cpus # {}
       THEN [ok |-> TRUE, cpus |-> UNION {each[i].cpus : i \in 1..Len(chunks)}]
       ELSE [ok |-> FALSE, cpus |-> {}]

\* A byte count mant * base^exp, kept as its factors; zero is the Go zero
\* value of the uint64 field: the quantity is unconstrained.
NoBytes == [mant |-> 0, base |-> 1, exp |-> 0]
Bytes(mant, base, exp) ==
    IF mant = 0 THEN NoBytes ELSE [mant |-> mant, base |-> base, exp |-> exp]

\* The suffixes of a byte size and their multipliers.
UnitSuffixes ==
    {<<<<>>, 1, 0>>, <<<<"B">>, 1, 0>>,
     <<<<"k", "B">>, 1000, 1>>, <<<<"M", "B">>, 1000, 2>>, <<<<"G", "B">>, 1000, 3>>,
     <<<<"K", "i", "B">>, 1024, 1>>, <<<<"M", "i", "B">>, 1024, 2>>,
     <<<<"G", "i", "B">>, 1024, 3>>}

\* Length of the longest prefix of s made of digits.
RECURSIVE DigitPrefix(_)
DigitPrefix(s) ==
    IF s # <<>> /\ Head(s) \in Digits THEN 1 + DigitPrefix(Tail(s)) ELSE 0

\* units.ParseByteSizeString: a decimal number followed by a unit suffix.
ParseByteSizeString(s) ==
    LET n == DigitPrefix(s)
        suffix == SubSeq(s, n + 1, Len(s))
    IN IF n > 0 /\ \E u \in UnitSuffixes : u[1] = suffix
       THEN LET u == CHOOSE u \in UnitSuffixes : u[1] = suffix
            IN [ok |-> TRUE, val |-> Bytes(DecimalVal(SubSeq(s, 1, n)), u[2], u[3])]
       ELSE [ok |-> FALSE, val |-> NoBytes]

\* qemudefault.CPUCores, qemudefault.MemSize, storageDrivers.DefaultBlockSize.
CPUCores == 1
MemSize == <<"1", "G", "i", "B">>
DefaultBlockSize == <<"1", "0", "G", "i", "B">>

\* Values of limits.cpu, limits.memory and of the root disk's size key.
CpuValues ==
    {<<>>, <<"4">>, <<"0">>, <<"0", ",", "2", ",", "4", ",", "6">>,
     <<"0", "-", "2">>, <<"x">>, <<"1", ",", "x">>}
SizeValues == {<<>>, <<"2", "G", "i", "B">>, <<"5", "0", "0", "M", "B">>, <<"0">>, <<"1", "2", "x">>}

\* req.Devices: no root disk device, or one whose config has this size key.
NoRootDisk == [found |-> FALSE, size |-> <<>>]
RootDisk(size) == [found |-> TRUE, size |-> size]
DeviceSets == {NoRootDisk} \cup {RootDisk(sz) : sz \in SizeValues}

\* instance.GetRootDiskDevice(req.Devices): the root disk's config, or an error.
GetRootDiskDevice(devices) ==
    IF devices.found THEN [ok |-> TRUE, size |-> devices.size]
    ELSE [ok |-> FALSE, size |-> <<>>]

Requests ==
    [type : {Container, VM}, cpu : CpuValues, memory : SizeValues, devices : DeviceSets]

\* The requests the whole invocation is explored with.
MainRequests ==
    {[type |-> Container, cpu |-> <<>>, memory |-> <<>>, devices |-> NoRootDisk],
     [type |-> VM, cpu |-> <<"4">>, memory |-> <<"1", "2", "x">>, devices |-> RootDisk(<<>>)]}

ParseCPUError == "Failed parsing instance resources limits.cpu"
ParseMemoryError == "Failed parsing instance resources limits.memory"
ParseRootDiskError == "Failed parsing instance resources root disk size"

\* A resolved field: its value, or the message of the error that ends the call.
Resolved(v) == [err |-> "", val |-> v]
Unresolved(msg, zero) == [err |-> msg, val |-> zero]

\* A slip: a value that is not an integer gets the default of the type.
ResolveCPU_IntegerOrDefault(r) ==
    IF r.cpu # <<>> /\ ParseUint(r.cpu).ok THEN Resolved(ParseUint(r.cpu).val)
    ELSE IF r.type = VM THEN Resolved(CPUCores) ELSE Resolved(0)

\* limits.cpu: the integer, or the size of the CPU set, or the VM default.
ResolveCPU(r) ==
    IF r.cpu # <<>>
    THEN IF ParseUint(r.cpu).ok THEN Resolved(ParseUint(r.cpu).val)
         ELSE IF ParseCpuset(r.cpu).ok
              THEN Resolved(Cardinality(ParseCpuset(r.cpu).cpus))
              ELSE Unresolved(ParseCPUError, 0)
    ELSE IF r.type = VM THEN Resolved(CPUCores) ELSE Resolved(0)

\* A slip: no default for virtual machines.
MemoryLimitStr_NoDefault(r) == r.memory

\* limits.memory, with the VM default when it is not given.
MemoryLimitStr(r) == IF r.type = VM /\ r.memory = <<>> THEN MemSize ELSE r.memory

\* A slip: a limit that does not parse leaves the memory unconstrained.
ResolveMemory_SoftFallback(r) ==
    IF MemoryLimitStr(r) # <<>> /\ ParseByteSizeString(MemoryLimitStr(r)).ok
    THEN Resolved(ParseByteSizeString(MemoryLimitStr(r)).val)
    ELSE Resolved(NoBytes)

ResolveMemory(r) ==
    IF MemoryLimitStr(r) # <<>>
    THEN IF ParseByteSizeString(MemoryLimitStr(r)).ok
         THEN Resolved(ParseByteSizeString(MemoryLimitStr(r)).val)
         ELSE Unresolved(ParseMemoryError, NoBytes)
    ELSE Resolved(NoBytes)

\* The root disk's size key, with the VM default when it is not given.
RootDiskSizeStr(r) ==
    IF r.type = VM /\ GetRootDiskDevice(r.devices).size = <<>>
    THEN DefaultBlockSize ELSE GetRootDiskDevice(r.devices).size

\* A slip: the failed device lookup ends the call.
ResolveRootDisk_LookupFatal(r) ==
    IF GetRootDiskDevice(r.devices).ok /\ RootDiskSizeStr(r) # <<>>
          /\ ParseByteSizeString(RootDiskSizeStr(r)).ok
    THEN Resolved(ParseByteSizeString(RootDiskSizeStr(r)).val)
    ELSE IF GetRootDiskDevice(r.devices).ok /\ RootDiskSizeStr(r) = <<>>
         THEN Resolved(NoBytes)
         ELSE Unresolved(ParseRootDiskError, NoBytes)

ResolveRootDisk(r) ==
    IF GetRootDiskDevice(r.devices).ok
    THEN IF RootDiskSizeStr(r) # <<>>
         THEN IF ParseByteSizeString(RootDiskSizeStr(r)).ok
              THEN Resolved(ParseByteSizeString(RootDiskSizeStr(r)).val)
              ELSE Unresolved(ParseRootDiskError, NoBytes)
         ELSE Resolved(NoBytes)
    ELSE Resolved(NoBytes)

\* apiScriptlet.InstanceResources as the builtin fills it, field by field in
\* the code's order; err is the first parse error, "" when there is none.
InstanceResources(r) ==
    LET cpu == ResolveCPU(r)
        mem == ResolveMemory(r)
        disk == ResolveRootDisk(r)
    IN [err |-> IF cpu.err # "" THEN cpu.err
                ELSE IF mem.err # "" THEN mem.err ELSE disk.err,
        CPUCores |-> cpu.val, MemorySize |-> mem.val, RootDiskSize |-> disk.val]

\* Before any get_instance_resources call.
NoResources ==
    [err |-> "not called", CPUCores |-> 0, MemorySize |-> NoBytes, RootDiskSize |-> NoBytes]

\* ---------------------------------------------------------------------
\* Several invocations of InstancePlacementRun at once.  Each call has its
\* own activation: the parameter candidateMembers, the local targetMember
\* the closures capture, the derived ctx and the thread its watcher stops.
\* ---------------------------------------------------------------------
Invs == {"p", "q"}

\* A *db.NodeInfo: the nil pointer, or &candidateMembers[idx] of the slice
\* that invocation `of` was given.
NullPtr == [of |-> "-", idx |-> 0]
Ptr(i, idx) == [of |-> i, idx |-> idx]

\* An invocation that has reached the entry point call with these candidates.
StartInv(cands) ==
    [cands |-> cands, pc |-> "running", callerDone |-> FALSE, ctxDone |-> FALSE,
     threadCancelled |-> FALSE, watcher |-> "waiting", lastMatch |-> NoName,
     calls |-> 0, result |-> [member |-> NullPtr, err |-> Pending]]

\* The candidate sets the concurrent invocations are given.
ConcCandidates == {<<"a", "b">>, <<"b", "a">>, <<"b">>}

\* No other invocation is looked at.
InvsIdle == [inv |-> [i \in Invs |-> StartInv(<<>>)], cell |-> [i \in Invs |-> NullPtr]]

\* ---------------------------------------------------------------------
\* networkUpdateOVNChassis (cmd/incusd/networks_utils.go).
\* ---------------------------------------------------------------------
MaxHeartbeats == 3       \* heartbeats processed
MaxHBMembers == 2        \* members in one heartbeat

ClusterRoleOVNChassis == "ovn-chassis"
LocalAddress == "local"
Addresses == {LocalAddress, "peer"}

\* cluster.APIHeartbeat.Members: each member's Address and Roles.
RoleSeqs == {<<>>, <<ClusterRoleOVNChassis>>, <<"database", ClusterRoleOVNChassis>>}
HBMembers == [Address : Addresses, Roles : RoleSeqs]
Heartbeats == UNION {[1..n -> HBMembers] : n \in 0..MaxHBMembers}

\* A *bool: nil, or the address of a bool of this value.
NilBool == [isNil |-> TRUE, v |-> FALSE]
BoolPtr(b) == [isNil |-> FALSE, v |-> b]

OvnInit ==
    /\ networkOVNChassis = NilBool
    /\ heartbeatData = <<>>
    /\ hbCount = 0
    /\ restarted = FALSE
    /\ restartFailed = FALSE
    /\ failedEver = FALSE
    /\ lastRun = FALSE
    /\ ovnErr = "none"

\* ---------------------------------------------------------------------
\* The ploop storage driver (driver_ploop_volumes.go), one volume.
\* ---------------------------------------------------------------------
MaxOps == 4              \* driver calls made on the volume

PloopInit ==
    /\ dirExists = FALSE
    /\ diskCreated = FALSE
    /\ mounted = FALSE
    /\ handles = 0
    /\ refCount = 0
    /\ counted = 0
    /\ uncounted = 0
    /\ ops = 0
    /\ lastOp = "none"
    /\ lastErr = "none"
    /\ failedAt = "none"

Init ==
    /\ candidateMembers \in MemberSeqs
    /\ callerDone = FALSE
    /\ ctxDone = FALSE
    /\ pc = "raftTx"
    /\ envBound = FALSE
    /\ watcher = "none"
    /\ threadCancelled = FALSE
    /\ entry = "unset"
    /\ targetMember = NULL
    /\ inflight = NoCall
    /\ result = [member |-> NULL, err |-> Pending]
    /\ nCalls = 0
    /\ entryCalls = 0
    /\ lastCall = [fn |-> "none", arg |-> NoName]
    /\ lastTarget = NoName
    /\ unknownTarget = FALSE
    /\ scriptReturn = "unset"
    /\ connects = {}
    /\ req \in MainRequests
    /\ resources = NoResources
    /\ readFailed = FALSE
    /\ cancelCalls = 0
    /\ invs = InvsIdle
    /\ OvnInit /\ PloopInit

----------------------------------------------------------------------------
\* Returning from InstancePlacementRun.

\* A slip: the error returns hand back the selection made so far.
ReturnError_KeepsTarget(e) == [member |-> targetMember, err |-> e]

\* `return nil, err`: every error return of the function.
ReturnError(e) == [member |-> NULL, err |-> e]

\* `return targetMember, nil` (line 565).
ReturnTarget == [member |-> targetMember, err |-> NilErr]

\* A slip: no deferred cancel(), the derived context is never released.
Return_NoDeferredCancel(r) ==
    /\ pc' = "returned"
    /\ result' = r
    /\ UNCHANGED ctxDone

\* A return statement together with the deferred cancel() of line 28.
Return(r) ==
    /\ pc' = "returned"
    /\ result' = r
    /\ ctxDone' = TRUE

----------------------------------------------------------------------------
\* The caller and the cancellation watcher.

\* The caller cancels its context (or its deadline expires); the context
\* derived from it at line 27 is done with it.
CallerCancel ==
    /\ pc # "returned"
    /\ ~callerDone
    /\ callerDone' = TRUE
    /\ ctxDone' = TRUE
    /\ UNCHANGED <<fixed, aux, pc, envBound, watcher, threadCancelled,
                   entry, targetMember, inflight, result, hist>>

\* A slip: the goroutine does not wait for ctx.Done().
Watcher_NoWait ==
    /\ watcher = "waiting"
    /\ threadCancelled' = TRUE
    /\ cancelCalls' = cancelCalls + 1
    /\ watcher' = "done"
    /\ UNCHANGED <<fixed, resources, readFailed, callerDone, ctxDone, pc,
                   envBound, entry, targetMember, inflight, result, hist>>

\* go func() { <-ctx.Done(); thread.Cancel("Request finished") }()
Watcher ==
    /\ watcher = "waiting"
    /\ ctxDone
    /\ threadCancelled' = TRUE
    /\ cancelCalls' = cancelCalls + 1
    /\ watcher' = "done"
    /\ UNCHANGED <<fixed, resources, readFailed, callerDone, ctxDone, pc,
                   envBound, entry, targetMember, inflight, result, hist>>

----------------------------------------------------------------------------
\* Building the snapshot (lines 443-496).

\* A slip: the transaction is not run under the invocation's context.
TxErrors_IgnoresCtx == {DatabaseError}

\* What a transaction run under ctx fails with: the context's error once the
\* context is done, a database error before that.
TxErrors == IF ctxDone THEN {ContextCanceled} ELSE {DatabaseError}

\* A transaction run under a context that is done does not succeed.
TxCanSucceed == ~ctxDone

\* s.DB.Node.Transaction: the raft node list.
RaftTx ==
    /\ pc = "raftTx"
    /\ \/ /\ TxCanSucceed
          /\ pc' = "clusterTx"
          /\ UNCHANGED <<result, ctxDone, readFailed>>
       \/ /\ \E c \in TxErrors : Return(ReturnError(Err("Failed loading RAFT nodes", c)))
          /\ readFailed' = TRUE
    /\ UNCHANGED <<fixed, resources, cancelCalls, callerDone, envBound, watcher,
                   threadCancelled, entry, targetMember, inflight, hist>>

\* The messages the closure of the cluster transaction wraps its reads with;
\* the error of ToAPI is returned as it is.
ClusterTxMessages ==
    {"Failed loading failure domains names", "Failed loading member failure domains",
     "Failed getting max member version", ""}

\* A slip: the error of the transaction is dropped and the snapshot is used
\* as far as it was built.
ClusterTx_PartialSnapshot ==
    /\ pc = "clusterTx"
    /\ pc' = "buildEnv"
    /\ readFailed' \in BOOLEAN
    /\ UNCHANGED <<fixed, resources, cancelCalls, callerDone, ctxDone, envBound,
                   watcher, threadCancelled, entry, targetMember, inflight,
                   result, hist>>

\* s.DB.Cluster.Transaction: failure domains, max version, ToAPI of each candidate.
ClusterTx ==
    /\ pc = "clusterTx"
    /\ \/ /\ TxCanSucceed
          /\ pc' = "buildEnv"
          /\ UNCHANGED <<result, ctxDone, readFailed>>
       \/ /\ \E c \in TxErrors, m \in ClusterTxMessages : Return(ReturnError(Err(m, c)))
          /\ readFailed' = TRUE
    /\ UNCHANGED <<fixed, resources, cancelCalls, callerDone, envBound, watcher,
                   threadCancelled, entry, targetMember, inflight, hist>>

\* env := starlark.StringDict{...}: the eleven builtins are bound.
BuildEnv ==
    /\ pc = "buildEnv"
    /\ envBound' = TRUE
    /\ pc' = "loadProgram"
    /\ UNCHANGED <<fixed, aux, callerDone, ctxDone, watcher,
                   threadCancelled, entry, targetMember, inflight, result, hist>>

\* scriptletLoad.InstancePlacementProgram(), then the watcher is started.
LoadProgram ==
    /\ pc = "loadProgram"
    /\ \/ /\ pc' = "init"
          /\ watcher' = "waiting"
          /\ UNCHANGED <<result, ctxDone>>
       \/ /\ Return(ReturnError(Err("", LoadError)))
          /\ UNCHANGED watcher
    /\ UNCHANGED <<fixed, aux, callerDone, envBound, threadCancelled,
                   entry, targetMember, inflight, hist>>

----------------------------------------------------------------------------
\* The interpreter: prog.Init runs the program's top level with env
\* predeclared, starlark.Call runs the entry point.  Before every instruction
\* the interpreter looks at the thread's cancel reason.

Interpreting == pc \in {"init", "running"}

\* The message the error of prog.Init (line 526) or starlark.Call (line 558)
\* is wrapped with.
RunWrap == IF pc = "init" THEN "Failed initializing" ELSE "Failed to run"

\* A slip: the interpreter goes on although the thread was cancelled.
CanStep_NoCancelCheck == (pc \in {"init", "running"}) /\ inflight = NoCall

\* The interpreter is at an instruction and the thread is not cancelled.
CanStep == Interpreting /\ inflight = NoCall /\ ~threadCancelled

\* The instruction is a call of a builtin.
CanCall == CanStep /\ envBound /\ nCalls < MaxCalls

\* The interpreter finds the thread cancelled at its next instruction.
Interrupted ==
    /\ Interpreting
    /\ inflight = NoCall
    /\ threadCancelled
    /\ Return(ReturnError(Err(RunWrap, ThreadCancelledCause)))
    /\ UNCHANGED <<fixed, aux, callerDone, envBound, watcher,
                   threadCancelled, entry, targetMember, inflight, hist>>

\* A slip: a failed run of the entry point is tried again.
ScriptFails_Retried ==
    /\ CanStep
    /\ pc = "running"
    /\ pc' = "call"
    /\ UNCHANGED <<fixed, aux, callerDone, ctxDone, envBound, watcher, result,
                   threadCancelled, entry, targetMember, inflight, hist>>

\* The script fails by itself: fail(), a runtime error, arguments the entry
\* point does not take.
ScriptFails ==
    /\ CanStep
    /\ Return(ReturnError(Err(RunWrap, ScriptError)))
    /\ UNCHANGED <<fixed, aux, callerDone, envBound, watcher,
                   threadCancelled, entry, targetMember, inflight, hist>>

EntryKinds == {"function", "noncallable", "missing"}

\* prog.Init returns the globals.
InitDone(kind) ==
    /\ pc = "init"
    /\ CanStep
    /\ entry' = kind
    /\ pc' = "resolve"
    /\ UNCHANGED <<fixed, aux, callerDone, ctxDone, envBound, watcher,
                   threadCancelled, targetMember, inflight, result, hist>>

\* globals.Freeze(); instancePlacement := globals["instance_placement"]
EntryMissing == entry = "missing"

ResolveEntry ==
    /\ pc = "resolve"
    /\ \/ /\ EntryMissing
          /\ Return(ReturnError(Err(MissingEntry, MissingEntry)))
       \/ /\ ~EntryMissing
          /\ pc' = "marshal"
          /\ UNCHANGED <<result, ctxDone>>
    /\ UNCHANGED <<fixed, aux, callerDone, envBound, watcher,
                   threadCancelled, entry, targetMember, inflight, hist>>

\* StarlarkMarshal(req), StarlarkMarshal(candidateMembersInfo)
MarshalArgs ==
    /\ pc = "marshal"
    /\ \/ /\ pc' = "call"
          /\ UNCHANGED <<result, ctxDone>>
       \/ \E m \in {"Marshalling request failed", "Marshalling candidate members failed"} :
              Return(ReturnError(Err(m, MarshalError)))
    /\ UNCHANGED <<fixed, aux, callerDone, envBound, watcher,
                   threadCancelled, entry, targetMember, inflight, hist>>

\* A slip: the entry point is called without the lookup of lines 532-535.
CallEntry_SkipsResolve ==
    /\ pc \in {"resolve", "call"}
    /\ entryCalls' = entryCalls + 1
    /\ \/ /\ entry = "function"
          /\ pc' = "running"
          /\ UNCHANGED <<result, ctxDone>>
       \/ /\ entry # "function"
          /\ Return(ReturnError(Err("Failed to run", NonCallable)))
    /\ UNCHANGED <<fixed, aux, callerDone, envBound, watcher,
                   threadCancelled, entry, targetMember, inflight, nCalls,
                   lastCall, lastTarget, unknownTarget, scriptReturn, connects>>

\* starlark.Call(thread, instancePlacement, nil, kwargs)
CallEntry ==
    /\ pc = "call"
    /\ entryCalls' = entryCalls + 1
    /\ \/ /\ entry = "function"
          /\ pc' = "running"
          /\ UNCHANGED <<result, ctxDone>>
       \/ /\ entry # "function"
          /\ Return(ReturnError(Err("Failed to run", NonCallable)))
    /\ UNCHANGED <<fixed, aux, callerDone, envBound, watcher,
                   threadCancelled, entry, targetMember, inflight, nCalls,
                   lastCall, lastTarget, unknownTarget, scriptReturn, connects>>

----------------------------------------------------------------------------
\* The builtins.

Range(f) == {f[i] : i \in DOMAIN f}

\* A slip: no break, the loop ends on the last entry of that name.
FindMember_LastEntry(name) ==
    IF name \in Range(candidateMembers)
    THEN CHOOSE i \in DOMAIN candidateMembers :
            /\ candidateMembers[i] = name
            /\ \A j \in DOMAIN candidateMembers : j > i => candidateMembers[j] # name
    ELSE NULL

\* for i := range candidateMembers { if candidateMembers[i].Name == memberName
\* { ... = &candidateMembers[i]; break } }: the first entry of that name, or nil.
FindMember(name) ==
    IF name \in Range(candidateMembers)
    THEN CHOOSE i \in DOMAIN candidateMembers :
            /\ candidateMembers[i] = name
            /\ \A j \in DOMAIN candidateMembers : j < i => candidateMembers[j] # name
    ELSE NULL

\* A slip: the loop takes the address of the first entry, not of the match.
SetTargetAssign_FirstEntry(name) ==
    IF FindMember(name) # NULL THEN 1 ELSE targetMember

\* A slip: a name that matches nothing selects a member made up from it.
SetTargetAssign_Fabricates(name) ==
    IF FindMember(name) # NULL THEN FindMember(name) ELSE Len(candidateMembers) + 1

\* targetMember after the loop of set_target (lines 42-47): the loop assigns on
\* a match and leaves the closure variable alone otherwise.
SetTargetAssign(name) ==
    IF FindMember(name) # NULL THEN FindMember(name) ELSE targetMember

\* if targetMember == nil (line 49), on the variable as the loop left it.
SetTargetRejects(t) == t = NULL

\* A builtin returns an error: the interpreter fails the script with it and
\* prog.Init or starlark.Call returns it.
BuiltinFails(cause) == Return(ReturnError(Err(RunWrap, cause)))

\* A builtin returns a value: the script goes on.
BuiltinReturns == UNCHANGED <<pc, result, ctxDone>>

\* set_target(member_name)
SetTarget(name) ==
    /\ CanCall
    /\ nCalls' = nCalls + 1
    /\ lastCall' = [fn |-> "set_target", arg |-> name]
    /\ IF name = BadArgs
       THEN /\ BuiltinFails(InvalidArgs)
            /\ UNCHANGED <<targetMember, lastTarget, unknownTarget>>
       ELSE /\ targetMember' = SetTargetAssign(name)
            /\ lastTarget' = name
            /\ unknownTarget' = (unknownTarget \/ name \notin Range(candidateMembers))
            /\ IF SetTargetRejects(targetMember')
               THEN BuiltinFails(InvalidMember)
               ELSE BuiltinReturns
    /\ UNCHANGED <<fixed, aux, callerDone, envBound, watcher,
                   threadCancelled, entry, inflight, entryCalls, scriptReturn,
                   connects>>

MemberBuiltins == {"get_cluster_member_resources", "get_cluster_member_state"}

\* A slip: the local member is reached over the network like the others.
IsLocal_Never(name) == FALSE

\* if memberName == s.ServerName (lines 70, 119)
IsLocal(name) == name = ServerName

\* A slip: an unknown name fails the script the way set_target does.
InvalidMemberName_Fatal == BuiltinFails(InvalidMember)

\* return starlark.String("Invalid member name"), nil (lines 86, 135): the
\* script gets the string as the value of the call and goes on.
InvalidMemberName == BuiltinReturns

\* What the local accessor fails with: resources.GetResources() takes no
\* context, cluster.MemberState(ctx, s, memberName) does.
LocalErrors(fn) ==
    IF fn = "get_cluster_member_state" /\ ctxDone THEN {ContextCanceled} ELSE {LocalError}

LocalCanSucceed(fn) == fn = "get_cluster_member_resources" \/ ~ctxDone

\* A slip: the lookup assigns the variable set_target's closure captured.
LookupLeavesTarget_Unshadowed(name) ==
    IF FindMember(name) # NULL THEN FindMember(name) ELSE targetMember

\* The selection after the member lookup of lines 76-83 and 125-132: the
\* loop assigns a `var targetMember` declared inside the builtin, which
\* shadows the selection.
LookupLeavesTarget(name) == targetMember

\* get_cluster_member_resources(member_name), get_cluster_member_state(member_name)
\* up to the remote call: cluster.Connect and the client's request take no context.
GetClusterMember(fn, name) ==
    /\ CanCall
    /\ nCalls' = nCalls + 1
    /\ lastCall' = [fn |-> fn, arg |-> name]
    /\ IF name = BadArgs
       THEN /\ BuiltinFails(InvalidArgs)
            /\ UNCHANGED <<inflight, connects, targetMember>>
       ELSE IF IsLocal(name)
       THEN /\ \/ LocalCanSucceed(fn) /\ BuiltinReturns
               \/ LocalCanSucceed(fn) /\ BuiltinFails(MarshalError)
               \/ \E c \in LocalErrors(fn) : BuiltinFails(c)
            /\ UNCHANGED <<inflight, connects, targetMember>>
       ELSE IF FindMember(name) = NULL
       THEN /\ InvalidMemberName
            /\ targetMember' = LookupLeavesTarget(name)
            /\ UNCHANGED <<inflight, connects>>
       ELSE /\ inflight' = [fn |-> fn, addr |-> FindMember(name)]
            /\ connects' = connects \cup {FindMember(name)}
            /\ targetMember' = LookupLeavesTarget(name)
            /\ BuiltinReturns
    /\ UNCHANGED <<fixed, aux, callerDone, envBound, watcher,
                   threadCancelled, entry, entryCalls, lastTarget,
                   unknownTarget, scriptReturn>>

\* The remote member answers and the answer is marshalled: the builtin returns.
RemoteAnswers ==
    /\ inflight # NoCall
    /\ inflight' = NoCall
    /\ UNCHANGED <<fixed, aux, callerDone, ctxDone, pc, envBound, watcher,
                   threadCancelled, entry, targetMember, result, hist>>

\* cluster.Connect or the request fails, or the answer cannot be marshalled.
RemoteFails ==
    /\ inflight # NoCall
    /\ inflight' = NoCall
    /\ \E c \in {RemoteError, MarshalError} : BuiltinFails(c)
    /\ UNCHANGED <<fixed, aux, callerDone, envBound, watcher,
                   threadCancelled, entry, targetMember, hist>>

DbBuiltins == {"get_instances", "get_instances_count", "get_cluster_members", "get_project"}

\* The builtins that read the database in transactions run under ctx: the
\* arguments are unpacked, the transactions run, the answer is marshalled.
DbBuiltin(fn, args) ==
    /\ CanCall
    /\ nCalls' = nCalls + 1
    /\ lastCall' = [fn |-> fn, arg |-> args]
    /\ IF args = BadArgs
       THEN BuiltinFails(InvalidArgs)
       ELSE \/ TxCanSucceed /\ BuiltinReturns
            \/ TxCanSucceed /\ BuiltinFails(MarshalError)
            \/ \E c \in TxErrors : BuiltinFails(c)
    /\ UNCHANGED <<fixed, aux, callerDone, envBound, watcher,
                   threadCancelled, entry, targetMember, inflight, entryCalls,
                   lastTarget, unknownTarget, scriptReturn, connects>>

\* get_instance_resources(): takes no argument and reads only req.
GetInstanceResources ==
    /\ CanCall
    /\ nCalls' = nCalls + 1
    /\ lastCall' = [fn |-> "get_instance_resources", arg |-> NoName]
    /\ resources' = InstanceResources(req)
    /\ IF resources'.err # ""
       THEN BuiltinFails(resources'.err)
       ELSE BuiltinReturns \/ BuiltinFails(MarshalError)
    /\ UNCHANGED <<fixed, readFailed, cancelCalls, callerDone, envBound, watcher,
                   threadCancelled, entry, targetMember, inflight, entryCalls,
                   lastTarget, unknownTarget, scriptReturn, connects>>

\* log_info, log_warn, log_error
LogBuiltin ==
    /\ CanCall
    /\ nCalls' = nCalls + 1
    /\ lastCall' = [fn |-> "log", arg |-> NoName]
    /\ BuiltinReturns
    /\ UNCHANGED <<fixed, aux, callerDone, envBound, watcher,
                   threadCancelled, entry, targetMember, inflight, entryCalls,
                   lastTarget, unknownTarget, scriptReturn, connects>>

----------------------------------------------------------------------------
\* The entry point returns (lines 557-565).

ReturnValues == {"NoneType", "string"}

\* A slip: the returned value's type is not looked at.
ReturnAccepted_Any(v) == TRUE

\* if v.Type() != "NoneType"
ReturnAccepted(v) == v = "NoneType"

ScriptReturns(v) ==
    /\ pc = "running"
    /\ CanStep
    /\ scriptReturn' = v
    /\ IF ReturnAccepted(v)
       THEN Return(ReturnTarget)
       ELSE Return(ReturnError(Err(BadReturn, BadReturn)))
    /\ UNCHANGED <<fixed, aux, callerDone, envBound, watcher,
                   threadCancelled, entry, targetMember, inflight, nCalls,
                   entryCalls, lastCall, lastTarget, unknownTarget, connects>>

----------------------------------------------------------------------------

Next ==
    \/ CallerCancel
    \/ Watcher
    \/ RaftTx
    \/ ClusterTx
    \/ BuildEnv
    \/ LoadProgram
    \/ Interrupted
    \/ ScriptFails
    \/ \E kind \in EntryKinds : InitDone(kind)
    \/ ResolveEntry
    \/ MarshalArgs
    \/ CallEntry
    \/ \E name \in ArgNames \cup {BadArgs} : SetTarget(name)
    \/ \E fn \in MemberBuiltins, name \in ArgNames \cup {BadArgs} : GetClusterMember(fn, name)
    \/ RemoteAnswers
    \/ RemoteFails
    \/ \E fn \in DbBuiltins, args \in {NoName, BadArgs} : DbBuiltin(fn, args)
    \/ GetInstanceResources
    \/ LogBuiltin
    \/ \E v \in ReturnValues : ScriptReturns(v)

Spec == Init /\ [][Next]_vars

\* get_instance_resources over every request: the invocation stands at the
\* entry point call, and the script calls the builtin, returns or fails.
InitRes ==
    /\ candidateMembers = <<"a", "b">>
    /\ callerDone = FALSE
    /\ ctxDone = FALSE
    /\ pc = "running"
    /\ envBound = TRUE
    /\ watcher = "waiting"
    /\ threadCancelled = FALSE
    /\ entry = "function"
    /\ targetMember = NULL
    /\ inflight = NoCall
    /\ result = [member |-> NULL, err |-> Pending]
    /\ nCalls = 0
    /\ entryCalls = 1
    /\ lastCall = [fn |-> "none", arg |-> NoName]
    /\ lastTarget = NoName
    /\ unknownTarget = FALSE
    /\ scriptReturn = "unset"
    /\ connects = {}
    /\ req \in Requests
    /\ resources = NoResources
    /\ readFailed = FALSE
    /\ cancelCalls = 0
    /\ invs = InvsIdle
    /\ OvnInit /\ PloopInit

NextRes ==
    \/ GetInstanceResources
    \/ ScriptFails
    \/ \E v \in ReturnValues : ScriptReturns(v)

SpecRes == InitRes /\ [][NextRes]_vars

----------------------------------------------------------------------------
\* Concurrent invocations: the steps of invocation i that write or read the
\* selection and the cancellation state.

\* A slip: targetMember is one package-level variable.
Cell_PackageLevel(i) == "p"

\* Where invocation i keeps targetMember: `var targetMember *db.NodeInfo`
\* (line 32) is a local of the call, captured by that call's closures.
Cell(i) == i

\* The first entry of that name in a candidate slice, 0 when there is none.
FindIn(cands, name) ==
    IF \E k \in DOMAIN cands : cands[k] = name
    THEN CHOOSE k \in DOMAIN cands :
            cands[k] = name /\ \A j \in DOMAIN cands : j < k => cands[j] # name
    ELSE 0

\* Invocation i returns r; its deferred cancel() runs.
ConcReturn(i, r) ==
    invs' = [invs EXCEPT !.inv[i].pc = "returned", !.inv[i].result = r,
                         !.inv[i].ctxDone = TRUE]

ConcRunning(i) == invs.inv[i].pc = "running" /\ ~invs.inv[i].threadCancelled

\* The caller of invocation i cancels the context it passed in.
ConcCallerCancel(i) ==
    /\ invs.inv[i].pc # "returned"
    /\ ~invs.inv[i].callerDone
    /\ invs' = [invs EXCEPT !.inv[i].callerDone = TRUE, !.inv[i].ctxDone = TRUE]

\* The watcher goroutine of invocation i, on its own ctx and thread.
ConcWatcher(i) ==
    /\ invs.inv[i].watcher = "waiting"
    /\ invs.inv[i].ctxDone
    /\ invs' = [invs EXCEPT !.inv[i].watcher = "done", !.inv[i].threadCancelled = TRUE]

\* set_target(name) in the script of invocation i (lines 34-57).
ConcSetTarget(i, name) ==
    LET k == FindIn(invs.inv[i].cands, name)
        t == IF k # 0 THEN Ptr(i, k) ELSE invs.cell[Cell(i)]
    IN /\ ConcRunning(i)
       /\ invs.inv[i].calls < MaxCalls
       /\ IF t = NullPtr
          THEN invs' = [invs EXCEPT
                   !.inv[i].calls = @ + 1,
                   !.inv[i].pc = "returned",
                   !.inv[i].ctxDone = TRUE,
                   !.inv[i].result = [member |-> NullPtr,
                                      err |-> Err("Failed to run", InvalidMember)]]
          ELSE invs' = [invs EXCEPT
                   !.inv[i].calls = @ + 1,
                   !.inv[i].lastMatch = IF k # 0 THEN name ELSE @,
                   !.cell[Cell(i)] = t]

\* The interpreter of invocation i sees thread.Cancel.
ConcInterrupted(i) ==
    /\ invs.inv[i].pc = "running"
    /\ invs.inv[i].threadCancelled
    /\ ConcReturn(i, [member |-> NullPtr, err |-> Err("Failed to run", ThreadCancelledCause)])

\* The script of invocation i fails by itself.
ConcScriptFails(i) ==
    /\ ConcRunning(i)
    /\ ConcReturn(i, [member |-> NullPtr, err |-> Err("Failed to run", ScriptError)])

\* The entry point of invocation i returns None: return targetMember, nil.
ConcScriptReturns(i) ==
    /\ ConcRunning(i)
    /\ ConcReturn(i, [member |-> invs.cell[Cell(i)], err |-> NilErr])

\* The single invocation the other variables describe stands still.
Single ==
    <<candidateMembers, callerDone, ctxDone, pc, envBound, watcher, threadCancelled,
      entry, targetMember, inflight, result, hist, req, aux>>

InitConc ==
    /\ candidateMembers = <<>>
    /\ callerDone = FALSE
    /\ ctxDone = FALSE
    /\ pc = "raftTx"
    /\ envBound = FALSE
    /\ watcher = "none"
    /\ threadCancelled = FALSE
    /\ entry = "unset"
    /\ targetMember = NULL
    /\ inflight = NoCall
    /\ result = [member |-> NULL, err |-> Pending]
    /\ nCalls = 0
    /\ entryCalls = 0
    /\ lastCall = [fn |-> "none", arg |-> NoName]
    /\ lastTarget = NoName
    /\ unknownTarget = FALSE
    /\ scriptReturn = "unset"
    /\ connects = {}
    /\ req = [type |-> Container, cpu |-> <<>>, memory |-> <<>>, devices |-> NoRootDisk]
    /\ resources = NoResources
    /\ readFailed = FALSE
    /\ cancelCalls = 0
    /\ invs \in {[inv |-> [i \in Invs |-> StartInv(c[i])], cell |-> [i \in Invs |-> NullPtr]] :
                    c \in [Invs -> ConcCandidates]}
    /\ OvnInit /\ PloopInit

NextConc ==
    /\ UNCHANGED <<Single, ovnVars, ploopVars>>
    /\ \E i \in Invs :
          \/ ConcCallerCancel(i)
          \/ ConcWatcher(i)
          \/ \E name \in ArgNames : ConcSetTarget(i, name)
          \/ ConcInterrupted(i)
          \/ ConcScriptFails(i)
          \/ ConcScriptReturns(i)

SpecConc == InitConc /\ [][NextConc]_vars

----------------------------------------------------------------------------
\* networkUpdateOVNChassis, called on every heartbeat.

\* The member has the OVN chassis role (the inner loop of lines 29-37).
HasOVNChassis(n) == \E k \in DOMAIN n.Roles : n.Roles[k] = ClusterRoleOVNChassis

\* runChassis := !hasOVNChassis || localOVNChassis (lines 26-41)
RunChassis(hb, localAddress) ==
    LET hasOVNChassis == \E i \in DOMAIN hb : HasOVNChassis(hb[i])
        localOVNChassis ==
            \E i \in DOMAIN hb : HasOVNChassis(hb[i]) /\ hb[i].Address = localAddress
    IN ~hasOVNChassis \/ localOVNChassis

\* A slip: the stored pointer is read without the nil check.
NeedsRestart_NoNilCheck(stored, run) == stored.v # run

\* if networkOVNChassis != nil && *networkOVNChassis != runChassis (line 42)
NeedsRestart(stored, run) == ~stored.isNil /\ stored.v # run

\* A slip: a failed restart leaves the stored value for the next heartbeat.
Stored_KeptOnFailure(run, failed) == IF failed THEN networkOVNChassis ELSE BoolPtr(run)

\* networkOVNChassis = &runChassis (line 50), after the restart or its error.
Stored(run, failed) == BoolPtr(run)

\* One heartbeat; restartOK is whether networkRestartOVN(s) succeeds if called.
networkUpdateOVNChassis(hb, restartOK) ==
    LET runChassis == RunChassis(hb, LocalAddress)
        restart == NeedsRestart(networkOVNChassis, runChassis)
    IN /\ hbCount < MaxHeartbeats
       /\ hbCount' = hbCount + 1
       /\ heartbeatData' = hb
       /\ restarted' = restart
       /\ restartFailed' = (restart /\ ~restartOK)
       /\ failedEver' = (failedEver \/ restartFailed')
       /\ networkOVNChassis' = Stored(runChassis, restartFailed')
       /\ lastRun' = runChassis
       /\ ovnErr' = "nil"
       /\ UNCHANGED <<Single, invs, ploopVars>>

InitSide ==
    /\ candidateMembers = <<>>
    /\ callerDone = FALSE
    /\ ctxDone = FALSE
    /\ pc = "raftTx"
    /\ envBound = FALSE
    /\ watcher = "none"
    /\ threadCancelled = FALSE
    /\ entry = "unset"
    /\ targetMember = NULL
    /\ inflight = NoCall
    /\ result = [member |-> NULL, err |-> Pending]
    /\ nCalls = 0
    /\ entryCalls = 0
    /\ lastCall = [fn |-> "none", arg |-> NoName]
    /\ lastTarget = NoName
    /\ unknownTarget = FALSE
    /\ scriptReturn = "unset"
    /\ connects = {}
    /\ req = [type |-> Container, cpu |-> <<>>, memory |-> <<>>, devices |-> NoRootDisk]
    /\ resources = NoResources
    /\ readFailed = FALSE
    /\ cancelCalls = 0
    /\ invs = InvsIdle
    /\ OvnInit /\ PloopInit

NextOVN == \E hb \in Heartbeats, restartOK \in BOOLEAN : networkUpdateOVNChassis(hb, restartOK)

SpecOVN == InitSide /\ [][NextOVN]_vars

----------------------------------------------------------------------------
\* The ploop driver: CreateVolume, MountVolume, UnmountVolume on one volume.
\* MountVolume and UnmountVolume run under vol.MountLock(); a call is one step.

\* The steps of CreateVolume that can fail, in the order of the code.
CreateSteps ==
    <<"ensure", "diskpath", "create", "open", "mount", "filler", "umount",
      "size", "resize", "gpt">>

\* Position of a step; "none" (no step fails) is past the last one.
Pos(step) ==
    IF \E k \in DOMAIN CreateSteps : CreateSteps[k] = step
    THEN CHOOSE k \in DOMAIN CreateSteps : CreateSteps[k] = step
    ELSE Len(CreateSteps) + 1

\* The step is run for this volume: the block steps for block content only
\* (lines 70, 135), the GPT header move for a VM block volume with a filler
\* (line 150).
Applies(step, isBlock, withGPT) ==
    /\ step \in {"diskpath", "size", "resize"} => isBlock
    /\ step = "gpt" => (isBlock /\ withGPT)

\* The step was run and succeeded when failAt is the step that fails.
Passed(step, failAt) == Pos(failAt) > Pos(step)

\* os.RemoveAll(volPath) of the revert hook (line 66), its error dropped:
\* the directory is gone unless a filesystem is mounted under it, which
\* rmdir refuses (EBUSY); the files in it are removed either way.
RemoveAllLeavesDir(isMounted) == isMounted

\* CreateVolume(vol, filler, op); failAt is the step that fails, if any.
CreateVolume(failAt, isBlock, withGPT) ==
    /\ ops < MaxOps
    /\ ops' = ops + 1
    /\ lastOp' = "CreateVolume"
    /\ Applies(failAt, isBlock, withGPT)
    /\ IF dirExists
       THEN \* util.PathExists(vol.MountPath()) (lines 57-59)
            /\ failAt = "none"
            /\ lastErr' = "VZ Ploop: Volume path already exists"
            /\ failedAt' = "exists"
            /\ UNCHANGED <<dirExists, diskCreated, mounted, handles>>
       ELSE LET \* the image is mounted when the function returns
                stillMounted == Passed("mount", failAt) /\ ~Passed("umount", failAt)
                \* disk was opened and disk.Close() (line 128) not reached
                handleOpen == Passed("open", failAt) /\ ~Passed("umount", failAt)
                \* revert.Add (line 66) was reached
                hooked == Passed("ensure", failAt)
            IN /\ failedAt' = failAt
               /\ lastErr' = IF failAt = "none" THEN "nil" ELSE "error"
               /\ mounted' = stillMounted
               /\ handles' = handles + (IF handleOpen THEN 1 ELSE 0)
               /\ IF failAt = "none"
                  THEN dirExists' = TRUE /\ diskCreated' = TRUE     \* revert.Success()
                  ELSE /\ dirExists' = (hooked /\ RemoveAllLeavesDir(stillMounted))
                       /\ diskCreated' = FALSE
    /\ UNCHANGED <<Single, invs, ovnVars, refCount, counted, uncounted>>

\* vol.MountRefCountIncrement(), vol.MountRefCountDecrement(): the new value.
MountRefCountIncrement == refCount + 1
MountRefCountDecrement == IF refCount > 0 THEN refCount - 1 ELSE 0

MountOutcomes == {"lock", "ensure", "open", "query", "mount", "none"}

\* MountVolume(vol, op); failAt is the call that fails, if any.
MountVolume(failAt, isCustom) ==
    LET ensures == ~dirExists \/ ~isCustom          \* line 345
        opens == failAt \notin {"lock", "ensure", "open"}
    IN /\ ops < MaxOps
       /\ ops' = ops + 1
       /\ lastOp' = "MountVolume"
       /\ failAt = "ensure" => ensures
       /\ (opens => diskCreated)                    \* vzgoploop.Open needs the descriptor
       /\ dirExists' = (dirExists \/ (ensures /\ failAt \notin {"lock", "ensure"}))
       /\ IF ~opens
          THEN \* return err (lines 338, 348, 354)
               /\ lastErr' = "error"
               /\ UNCHANGED <<mounted, handles, refCount, counted, uncounted>>
          ELSE IF failAt = "query"
          THEN \* disk.IsMounted() fails: return nil (lines 359-362)
               /\ lastErr' = "nil"
               /\ handles' = handles + 1
               /\ uncounted' = uncounted + 1
               /\ UNCHANGED <<mounted, refCount, counted>>
          ELSE IF mounted
          THEN \* already mounted: count and return nil (lines 364-369)
               /\ failAt = "none"
               /\ lastErr' = "nil"
               /\ refCount' = MountRefCountIncrement
               /\ counted' = counted + 1
               /\ handles' = handles + 1
               /\ UNCHANGED <<mounted, uncounted>>
          ELSE IF failAt = "mount"
          THEN \* disk.MountImage fails: return nil (lines 374-377)
               /\ lastErr' = "nil"
               /\ handles' = handles + 1
               /\ uncounted' = uncounted + 1
               /\ UNCHANGED <<mounted, refCount, counted>>
          ELSE \* mounted, counted, closed (lines 379-385)
               /\ lastErr' = "nil"
               /\ mounted' = TRUE
               /\ refCount' = MountRefCountIncrement
               /\ counted' = counted + 1
               /\ UNCHANGED <<handles, uncounted>>
       /\ UNCHANGED <<Single, invs, ovnVars, diskCreated, failedAt>>

ErrInUse == "ErrInUse"

\* UnmountVolume(vol, keepBlockDev, op), called by a caller that holds a nil
\* of MountVolume: one the counter counts, or one it does not.
UnmountVolume(caller, lockOK, umountOK) ==
    /\ ops < MaxOps
    /\ ops' = ops + 1
    /\ lastOp' = "UnmountVolume"
    /\ IF caller = "counted" THEN counted > 0 ELSE uncounted > 0
    /\ IF ~lockOK
       THEN \* return false, err (lines 395-397)
            /\ lastErr' = "error"
            /\ UNCHANGED <<mounted, refCount, counted, uncounted>>
       ELSE /\ refCount' = MountRefCountDecrement
            /\ counted' = IF caller = "counted" THEN counted - 1 ELSE counted
            /\ uncounted' = IF caller = "counted" THEN uncounted ELSE uncounted - 1
            /\ IF refCount' > 0
               THEN lastErr' = ErrInUse /\ UNCHANGED mounted       \* lines 402-405
               ELSE /\ lastErr' = "nil"                             \* lines 407-425
                    /\ mounted' = (mounted /\ ~umountOK)
    /\ UNCHANGED <<Single, invs, ovnVars, dirExists, diskCreated, handles, failedAt>>

NextPloop ==
    \/ \E failAt \in Range(CreateSteps) \cup {"none"}, isBlock \in BOOLEAN, withGPT \in BOOLEAN :
          CreateVolume(failAt, isBlock, withGPT)
    \/ \E failAt \in MountOutcomes, isCustom \in BOOLEAN : MountVolume(failAt, isCustom)
    \/ \E caller \in {"counted", "uncounted"}, lockOK \in BOOLEAN, umountOK \in BOOLEAN :
          UnmountVolume(caller, lockOK, umountOK)

SpecPloop == InitSide /\ [][NextPloop]_vars

\* The steps InstancePlacementRun takes by itself, between the script's.
ProgramStep ==
    \/ RaftTx \/ ClusterTx \/ BuildEnv \/ LoadProgram
    \/ ResolveEntry \/ MarshalArgs \/ CallEntry

\* The Go scheduler runs a runnable goroutine: the function goes on, the watcher
\* wakes once ctx is done, the interpreter reaches its next instruction.  The
\* caller need not cancel, the script need not call anything, and a remote
\* member need not answer.
FairSpec ==
    /\ Spec
    /\ WF_vars(ProgramStep)
    /\ WF_vars(Watcher)
    /\ WF_vars(Interrupted)

TypeOK ==
    /\ candidateMembers \in MemberSeqs
    /\ callerDone \in BOOLEAN /\ ctxDone \in BOOLEAN /\ envBound \in BOOLEAN
    /\ threadCancelled \in BOOLEAN /\ unknownTarget \in BOOLEAN
    /\ pc \in {"raftTx", "clusterTx", "buildEnv", "loadProgram", "init",
               "resolve", "marshal", "call", "running", "returned"}
    /\ watcher \in {"none", "waiting", "done"}
    /\ entry \in EntryKinds \cup {"unset"}
    /\ targetMember \in 0..MaxMembers
    /\ nCalls \in 0..MaxCalls
    /\ entryCalls \in 0..1
    /\ lastTarget \in ArgNames \cup {NoName}
    /\ lastCall.fn \in {"none", "set_target", "log", "get_instance_resources"} \cup MemberBuiltins \cup DbBuiltins
    /\ lastCall.arg \in ArgNames \cup {NoName, BadArgs}
    /\ scriptReturn \in ReturnValues \cup {"unset"}
    /\ connects \subseteq 1..MaxMembers
    /\ req \in Requests
    /\ readFailed \in BOOLEAN
    /\ cancelCalls \in 0..1
    /\ resources = NoResources \/ resources = InstanceResources(req)

----------------------------------------------------------------------------
\* The claims.

Returned == pc = "returned"
Completed == Returned /\ result.err = NilErr
IsCandidate(m) == m \in DOMAIN candidateMembers

\* C1: when the last set_target call of a script names a member of the
\* candidate set and the entry point then returns no value, the function
\* returns a pointer to an element of candidateMembers of that name, and a nil
\* error.
C1_SetTargetReturnsMember ==
    (Returned /\ scriptReturn = "NoneType" /\ lastTarget \in Range(candidateMembers))
        => /\ result.err = NilErr
           /\ IsCandidate(result.member)
           /\ candidateMembers[result.member] = lastTarget

C1_Witness ==
    /\ Returned
    /\ scriptReturn = "NoneType"
    /\ candidateMembers = <<"a", "b">>
    /\ lastTarget = "b"
    /\ result = [member |-> 2, err |-> NilErr]

\* C2: once a set_target call has named a member that is not in the candidate
\* set, the invocation does not end Completed and returns no selection, also
\* when an earlier set_target call succeeded.
C2_UnknownTargetNoSelection ==
    (Returned /\ unknownTarget) => (result.err # NilErr /\ result.member = NULL)

\* C3: the recorded selection, and the member returned, is nil or a pointer to
\* an element of the candidateMembers slice of this invocation.
C3_SelectionIsCandidate ==
    /\ targetMember = NULL \/ IsCandidate(targetMember)
    /\ result.member = NULL \/ IsCandidate(result.member)

C3_Witness ==
    /\ Returned
    /\ nCalls >= 2
    /\ unknownTarget
    /\ targetMember # NULL
    /\ result.member = targetMember

\* C4: the function never returns a member together with an error: whenever
\* it returns an error the member is nil, also after a successful set_target.
C4_NoMemberWithError ==
    Returned => (result.err = NilErr \/ result.member = NULL)

C4_Witness ==
    /\ Returned
    /\ targetMember # NULL
    /\ result.err # NilErr
    /\ result.member = NULL

\* The outcomes of the cancellation kind: the context's error out of a
\* transaction, the interpreter's error after thread.Cancel.
IsCancellation(e) == e.cause \in {ContextCanceled, ThreadCancelledCause}

\* C5: when the caller cancels while the script is blocked in the remote call
\* of get_cluster_member_resources or get_cluster_member_state, the invocation
\* eventually returns.
C5_CancelUnblocksRemote ==
    (callerDone /\ inflight # NoCall) ~> Returned

C7_CancellationIsDistinct ==
    [][(~Returned /\ Returned')
         => /\ (pc \in {"raftTx", "clusterTx"} /\ ctxDone)
                  => IsCancellation(result'.err)
            /\ (Interpreting /\ inflight = NoCall /\ threadCancelled)
                  => IsCancellation(result'.err)
            /\ (nCalls' # nCalls /\ ctxDone /\ lastCall'.arg # BadArgs
                   /\ (lastCall'.fn \in DbBuiltins
                         \/ lastCall' = [fn |-> "get_cluster_member_state", arg |-> ServerName]))
                  => IsCancellation(result'.err)
            /\ IsCancellation(result'.err) => callerDone]_vars

C7_Witness ==
    /\ Returned
    /\ callerDone
    /\ lastCall.fn \in DbBuiltins
    /\ result.err = Err("Failed to run", ContextCanceled)

\* C8: a program whose instance_placement global is missing or not callable
\* fails with the missing entry point error before the entry point is called.
C8_NoEntryPointFailsBeforeCall ==
    entry \in {"missing", "noncallable"}
        => /\ pc \in {"resolve", "returned"}
           /\ entryCalls = 0
           /\ Returned => result.err.cause = MissingEntry

\* C9: the invocation ends Completed only when the entry point returned None;
\* any other value fails it with the unexpected return value error and no
\* selection, also after a successful set_target.
C9_OnlyNoneCompletes ==
    /\ Completed => scriptReturn = "NoneType"
    /\ scriptReturn \notin {"unset", "NoneType"}
          => /\ Returned
             /\ result = [member |-> NULL, err |-> Err(BadReturn, BadReturn)]

C9_Witness ==
    /\ scriptReturn = "string"
    /\ targetMember # NULL
    /\ result.member = NULL

\* The phases of the state machine: Uninitialized 0, Environment-Built 1,
\* Entry-Resolved 2, Running 3, and the terminal states 4.
Phase(p) ==
    CASE p \in {"raftTx", "clusterTx", "buildEnv"} -> 0
      [] p \in {"loadProgram", "init", "resolve"} -> 1
      [] p \in {"marshal", "call"} -> 2
      [] p = "running" -> 3
      [] p = "returned" -> 4

\* Every step keeps the order of the phases: the next phase or a terminal
\* state, which is final; Completed is entered from Running only; the builtins
\* are bound from Environment-Built on; the entry point is called once, after
\* it was resolved.
PhaseStep ==
    /\ Phase(pc') \in {Phase(pc), Phase(pc) + 1, 4}
    /\ Returned => UNCHANGED <<pc, result, targetMember, nCalls, entryCalls>>
    /\ (~Returned /\ Completed') => pc = "running"
    /\ Phase(pc') \in 1..3 => envBound'
    /\ entryCalls' # entryCalls
          => (Phase(pc) = 2 /\ entry \in {"function", "noncallable"} /\ entryCalls = 0)

\* C10, as claimed: the phases are passed in order and no builtin executes
\* before Running or after a terminal state.
C10_BuiltinsOnlyWhileRunning ==
    [][PhaseStep /\ (nCalls' # nCalls => pc = "running")]_vars

\* C10, amended: the phases are passed in order; a builtin executes only while
\* the program is initialised (its top level runs with the builtins bound) or
\* while the entry point is Running, never before the builtins are bound and
\* never after a terminal state.
C10_PhaseOrder ==
    [][PhaseStep /\ (nCalls' # nCalls => (pc \in {"init", "running"} /\ envBound))]_vars

C10_Witness ==
    /\ pc = "resolve"
    /\ entry = "function"
    /\ lastCall = [fn |-> "set_target", arg |-> "b"]
    /\ targetMember # NULL

\* ---------------------------------------------------------------------
\* get_instance_resources (specification SpecRes).
\* ---------------------------------------------------------------------
\* The builtin has been called on the request.
ResourcesCalled == resources # NoResources

\* The quantities the defaults of the virtual machine type stand for.
OneGiB == [mant |-> 1, base |-> 1024, exp |-> 3]
TenGiB == [mant |-> 10, base |-> 1024, exp |-> 3]

\* No limits.cpu, no limits.memory and no size key of a root disk.
NoKeys == req.cpu = <<>> /\ req.memory = <<>> /\ req.devices.size = <<>>

\* C13 as stated: with none of the three keys a container gets every field
\* unconstrained and a virtual machine gets the default of its type in every
\* field, the root disk size included.
C13_DefaultsInAllThree ==
    (ResourcesCalled /\ NoKeys) =>
        /\ resources.err = ""
        /\ req.type = Container =>
              /\ resources.CPUCores = 0
              /\ resources.MemorySize = NoBytes
              /\ resources.RootDiskSize = NoBytes
        /\ req.type = VM =>
              /\ resources.CPUCores = CPUCores
              /\ resources.MemorySize = OneGiB
              /\ resources.RootDiskSize = TenGiB

\* C13 amended: with none of the three keys a container gets every field
\* unconstrained; a virtual machine gets the default core count and the
\* default memory size, and the default root disk size when the request
\* has a root disk device; without one its root disk stays unconstrained.
C13_DefaultsWhereResolved ==
    (ResourcesCalled /\ NoKeys) =>
        /\ resources.err = ""
        /\ req.type = Container =>
              /\ resources.CPUCores = 0
              /\ resources.MemorySize = NoBytes
              /\ resources.RootDiskSize = NoBytes
        /\ req.type = VM =>
              /\ resources.CPUCores = CPUCores
              /\ resources.MemorySize = OneGiB
              /\ resources.RootDiskSize = IF req.devices.found THEN TenGiB ELSE NoBytes

C13_Witness ==
    /\ ResourcesCalled /\ NoKeys /\ req.type = VM /\ req.devices.found
    /\ resources.MemorySize = OneGiB /\ resources.RootDiskSize = TenGiB
    /\ Completed

\* What every type resolves limits.cpu to: the call does not look at the type.
SameCPUForEveryType ==
    \A t \in {Container, VM} : ResolveCPU([req EXCEPT !.type = t]).val = resources.CPUCores

\* C14: a limits.cpu that is an unsigned integer resolves to that integer,
\* one that is a CPU set resolves to the number of identifiers in the set
\* ("4" to 4, "0,2,4,6" to 4, "0-2" to 3), and the default of the instance
\* type is used only when the key is absent.
C14_CpuIntegerOrSetSize ==
    (ResourcesCalled /\ resources.err # ParseCPUError) =>
        /\ req.cpu = <<"4">> => resources.CPUCores = 4
        /\ req.cpu = <<"0">> => resources.CPUCores = 0
        /\ req.cpu = <<"0", ",", "2", ",", "4", ",", "6">> => resources.CPUCores = 4
        /\ req.cpu = <<"0", "-", "2">> => resources.CPUCores = 3
        /\ req.cpu # <<>> => SameCPUForEveryType
        /\ req.cpu = <<>> =>
              resources.CPUCores = IF req.type = VM THEN CPUCores ELSE 0

C14_Witness ==
    /\ req.cpu = <<"0", ",", "2", ",", "4", ",", "6">> /\ req.type = VM
    /\ resources.err = "" /\ resources.CPUCores = 4
    /\ Completed

\* Values that are no integer, no CPU set and no byte size.
InvalidCpuValues == {<<"x">>, <<"1", ",", "x">>}
InvalidSizeValues == {<<"1", "2", "x">>}

InvalidValue ==
    \/ req.cpu \in InvalidCpuValues
    \/ req.memory \in InvalidSizeValues
    \/ req.devices.found /\ req.devices.size \in InvalidSizeValues

\* C18: a limits.cpu that is neither an integer nor a CPU set, a
\* limits.memory that is no byte size, or a root disk size that is no byte
\* size makes the call fail with the parse error of that field and the
\* invocation return that error with no member; no field is left
\* unconstrained in its place.
C18_ParseFailureIsFatal ==
    (ResourcesCalled /\ InvalidValue) =>
        /\ resources.err \in {ParseCPUError, ParseMemoryError, ParseRootDiskError}
        /\ resources.err = ParseCPUError => req.cpu \in InvalidCpuValues
        /\ resources.err = ParseMemoryError => req.memory \in InvalidSizeValues
        /\ resources.err = ParseRootDiskError => req.devices.size \in InvalidSizeValues
        /\ pc = "returned"
        /\ result.member = NULL
        /\ result.err = Err("Failed to run", resources.err)

C18_Witness ==
    /\ ResourcesCalled /\ req.devices.found /\ req.devices.size \in InvalidSizeValues
    /\ resources.err = ParseRootDiskError
    /\ pc = "returned" /\ result.member = NULL

\* C19: the root disk size is resolved only when the request has a root
\* disk device: the device's size key, or the default when the key is empty
\* and the instance is a virtual machine, or unconstrained when the key is
\* empty and the instance is a container; without a device it is
\* unconstrained for both types and the call does not fail for it.
C19_RootDiskOnlyWithDevice ==
    (ResourcesCalled /\ resources.err \notin {ParseCPUError, ParseMemoryError}) =>
        /\ ~req.devices.found =>
              resources.err = "" /\ resources.RootDiskSize = NoBytes
        /\ (req.devices.found /\ req.devices.size = <<>>) =>
              /\ resources.err = ""
              /\ resources.RootDiskSize = IF req.type = VM THEN TenGiB ELSE NoBytes
        /\ (req.devices.found /\ req.devices.size = <<"2", "G", "i", "B">>) =>
              /\ resources.err = ""
              /\ resources.RootDiskSize = [mant |-> 2, base |-> 1024, exp |-> 3]
        /\ (req.devices.found /\ req.devices.size = <<"5", "0", "0", "M", "B">>) =>
              /\ resources.err = ""
              /\ resources.RootDiskSize = [mant |-> 500, base |-> 1000, exp |-> 2]
        /\ (req.devices.found /\ req.devices.size = <<"0">>) =>
              resources.err = "" /\ resources.RootDiskSize = NoBytes

C19_Witness ==
    /\ ResourcesCalled /\ req.type = VM /\ ~req.devices.found
    /\ resources.err = "" /\ resources.RootDiskSize = NoBytes
    /\ resources.MemorySize # NoBytes
    /\ Completed

\* ---------------------------------------------------------------------
\* The watcher, the member builtins and the snapshot reads.
\* ---------------------------------------------------------------------
\* C12: once the invocation has returned, with whatever outcome, its watcher
\* goroutine does not stay blocked on ctx.Done(): it terminates.
C12_WatcherTerminates ==
    (Returned /\ watcher = "waiting") ~> (watcher = "done")

\* The invocation completed without the caller ever cancelling, and the
\* watcher it started has ended.
C12_Witness ==
    Completed /\ ~callerDone /\ watcher = "done" /\ result.member # NULL

\* The step is a call of a member builtin with this kind of name.
MemberCallStep ==
    /\ nCalls' = nCalls + 1
    /\ lastCall'.fn \in MemberBuiltins
    /\ lastCall'.arg \in ArgNames

\* The candidate entries of that name.
EntriesNamed(name) ==
    {i \in DOMAIN candidateMembers : candidateMembers[i] = name}

\* C15: get_cluster_member_resources and get_cluster_member_state, called
\* with a name that is neither the local server's nor a candidate's, return
\* to the script without error: no connection is opened, the selection is
\* unchanged and the script goes on running.
C15_UnknownNameIsSoft ==
    [][(MemberCallStep /\ lastCall'.arg # ServerName /\ EntriesNamed(lastCall'.arg) = {}) =>
          /\ pc' = pc /\ Interpreting'
          /\ result' = result
          /\ inflight' = NoCall
          /\ connects' = connects
          /\ targetMember' = targetMember]_vars

\* After such a call as its last builtin call the script completed with the
\* selection it had made before.
C15_Witness ==
    /\ Completed /\ result.member # NULL /\ connects = {}
    /\ lastCall.fn \in MemberBuiltins /\ lastCall.arg = UnknownName

\* C16: a member builtin called with the local server's name uses the local
\* accessor and opens no connection, in the candidate set or not; with
\* another name it connects only to a candidate entry of that name; and
\* when the connection or the remote call fails the invocation returns an
\* error and no member.
C16_LocalRemoteDispatch ==
    [][/\ (MemberCallStep /\ lastCall'.arg = ServerName) =>
              inflight' = NoCall /\ connects' = connects
       /\ (MemberCallStep /\ lastCall'.arg # ServerName) =>
              /\ connects' \ connects \subseteq EntriesNamed(lastCall'.arg)
              /\ inflight' # NoCall =>
                    /\ inflight'.addr \in EntriesNamed(lastCall'.arg)
                    /\ inflight'.addr \in connects'
       /\ ~MemberCallStep => connects' = connects
       /\ (inflight # NoCall /\ inflight' = NoCall /\ pc' # pc) =>
              /\ pc' = "returned"
              /\ result'.member = NULL
              /\ result'.err.cause \in {RemoteError, MarshalError}]_vars

\* The script asked a remote candidate and then the local server, which is
\* a candidate too, and only the remote one was connected to.
C16_Witness ==
    /\ Completed /\ lastCall.fn \in MemberBuiltins /\ lastCall.arg = ServerName
    /\ EntriesNamed(ServerName) # {}
    /\ connects # {} /\ connects \cap EntriesNamed(ServerName) = {}

\* C17: when a read of the snapshot build fails, the invocation returns
\* that error and no member, and nothing after the snapshot has happened:
\* no environment, no program load, no watcher, no entry point call, no
\* builtin call.
C17_ReadFailureAborts ==
    readFailed =>
        /\ Returned
        /\ result.member = NULL
        /\ result.err.cause \in {DatabaseError, ContextCanceled}
        /\ result.err.msg \in {"Failed loading RAFT nodes"} \cup ClusterTxMessages
        /\ ~envBound
        /\ entry = "unset"
        /\ watcher = "none" /\ ~threadCancelled
        /\ entryCalls = 0
        /\ nCalls = 0

C17_Witness ==
    /\ readFailed /\ Returned
    /\ result.err = Err("Failed loading member failure domains", DatabaseError)

\* C20: thread.Cancel is called at most once in an invocation, by the
\* watcher, and only when the context is done; the context of an invocation
\* that has not returned is done only because the caller cancelled.
C20_CancelOnceAfterDone ==
    /\ cancelCalls <= 1
    /\ (cancelCalls = 1) = threadCancelled
    /\ threadCancelled => (ctxDone /\ watcher = "done")
    /\ (ctxDone /\ ~Returned) => callerDone
    /\ (threadCancelled /\ ~callerDone) => Returned

\* The watcher stopped a script that was still running.
C20_Witness ==
    cancelCalls = 1 /\ pc = "running" /\ callerDone /\ nCalls > 0

\* ---------------------------------------------------------------------
\* Concurrent invocations (specification SpecConc).
\* ---------------------------------------------------------------------
ConcCompleted(i) == invs.inv[i].pc = "returned" /\ invs.inv[i].result.err = NilErr

\* What invocation i's own candidates and own set_target calls select.
OwnSelection(i) ==
    IF invs.inv[i].lastMatch = NoName THEN NullPtr
    ELSE Ptr(i, FindIn(invs.inv[i].cands, invs.inv[i].lastMatch))

\* C11: with invocations running at once, the member each one returns is
\* the one its own candidate set and its own set_target calls select, an
\* invocation is stopped or fails as cancelled only when its own caller
\* cancelled, and a step of one invocation changes nothing of another.
C11_InvocationsIndependent ==
    /\ [](\A i \in Invs :
            /\ ConcCompleted(i) => invs.inv[i].result.member = OwnSelection(i)
            /\ invs.inv[i].threadCancelled => invs.inv[i].ctxDone
            /\ (invs.inv[i].ctxDone /\ invs.inv[i].pc # "returned") => invs.inv[i].callerDone
            /\ IsCancellation(invs.inv[i].result.err) => invs.inv[i].callerDone)
    /\ [][\E i \in Invs : \A j \in Invs \ {i} :
              invs'.inv[j] = invs.inv[j] /\ invs'.cell[j] = invs.cell[j]]_vars

\* Both invocations completed with different members of their own, after
\* the caller of one had cancelled too late to stop it.
C11_Witness ==
    /\ \A i \in Invs : ConcCompleted(i) /\ invs.inv[i].result.member.of = i
    /\ invs.inv["p"].cands[invs.inv["p"].result.member.idx]
          # invs.inv["q"].cands[invs.inv["q"].result.member.idx]
    /\ invs.inv["p"].callerDone /\ ~invs.inv["q"].callerDone

\* ---------------------------------------------------------------------
\* No retry, and the selection set_target records.
\* ---------------------------------------------------------------------
\* C21: nothing is retried.  The entry point is called at most once, a
\* remote call is started only by a builtin call and once for it, and once
\* the function has returned (a fatal builtin error, a script error and a
\* cancellation all return) no builtin runs, no call is started and the
\* returned result stays what it was.
C21_NothingIsRetried ==
    [][/\ entryCalls' # entryCalls => (entryCalls = 0 /\ entryCalls' = 1)
       /\ (inflight' # NoCall /\ inflight' # inflight) =>
              (inflight = NoCall /\ nCalls' = nCalls + 1)
       /\ (inflight # NoCall /\ inflight' = NoCall) =>
              (pc' = pc \/ (pc' = "returned" /\ result'.err # NilErr))
       /\ (pc # "returned" /\ pc' \notin {pc, "returned"}) =>
              (Phase(pc') >= Phase(pc) /\ result' = result)
       /\ pc = "returned" =>
              /\ pc' = pc /\ result' = result
              /\ nCalls' = nCalls /\ entryCalls' = entryCalls
              /\ inflight' = inflight /\ connects' = connects
              /\ targetMember' = targetMember]_vars

\* The invocation failed on its second builtin call, a remote call that
\* was started once, after one run of the entry point.
C21_Witness ==
    /\ Returned /\ result.err.cause = RemoteError /\ result.member = NULL
    /\ entryCalls = 1 /\ nCalls = 2 /\ Cardinality(connects) = 1

\* The first entry of candidateMembers with that name.
FirstEntryNamed(name) ==
    CHOOSE i \in EntriesNamed(name) : \A j \in EntriesNamed(name) : i <= j

\* C22: when every set_target call of the script named a candidate and the
\* entry point returned no value, the member returned is the one the last
\* call named, and of several entries with that name the first; each such
\* call overwrites the selection whatever it was.
C22_LastSetTargetFirstEntry ==
    /\ []((Completed /\ ~unknownTarget /\ lastTarget # NoName) =>
             result.member = FirstEntryNamed(lastTarget))
    /\ [][(nCalls' = nCalls + 1 /\ lastCall'.fn = "set_target"
             /\ EntriesNamed(lastCall'.arg) # {}) =>
               targetMember' = FirstEntryNamed(lastCall'.arg)]_vars

\* Two calls, the second on a name two candidates have.
C22_Witness ==
    /\ Completed /\ ~unknownTarget /\ nCalls = 2 /\ lastCall.fn = "set_target"
    /\ candidateMembers = <<"b", "b">> /\ result.member = 1

\* C23: the selection changes only in a set_target call that names a
\* candidate: not in a set_target call with another name or with malformed
\* arguments, and not in any other builtin.
C23_OnlySetTargetSelects ==
    [][targetMember' # targetMember =>
          /\ nCalls' = nCalls + 1
          /\ lastCall'.fn = "set_target"
          /\ lastCall'.arg \in Range(candidateMembers)]_vars

\* The script selected one candidate and then looked another one up.
C23_Witness ==
    /\ pc = "running" /\ targetMember # NULL /\ inflight # NoCall
    /\ lastCall.fn \in MemberBuiltins
    /\ lastCall.arg \in Range(candidateMembers)
    /\ candidateMembers[targetMember] # lastCall.arg

\* ---------------------------------------------------------------------
\* networkUpdateOVNChassis (specification SpecOVN).
\* ---------------------------------------------------------------------
\* The step processes a heartbeat.
HeartbeatStep == hbCount' = hbCount + 1

\* runChassis as the claim words it: no member has the OVN chassis role, or
\* the member at the local address has it.
Chassis(hb) == {i \in DOMAIN hb : ClusterRoleOVNChassis \in Range(hb[i].Roles)}
ExpectedRun(hb) ==
    Chassis(hb) = {} \/ \E i \in Chassis(hb) : hb[i].Address = LocalAddress

\* C24: a heartbeat triggers an OVN restart exactly when an earlier
\* heartbeat has been processed and this heartbeat's runChassis differs from
\* the value the previous heartbeat stored; the first heartbeat never does,
\* and a heartbeat with the same runChassis as the one before never does.
C24_RestartIffChanged ==
    [][HeartbeatStep =>
          /\ lastRun' = ExpectedRun(heartbeatData')
          /\ restarted' = (hbCount >= 1 /\ lastRun' # lastRun)
          /\ hbCount >= 1 => (~networkOVNChassis.isNil /\ networkOVNChassis.v = lastRun)]_vars

\* The third heartbeat restarted OVN: the local member lost the role to a peer.
C24_Witness ==
    /\ hbCount = 3 /\ restarted /\ ~lastRun
    /\ \E i \in DOMAIN heartbeatData : heartbeatData[i].Address = LocalAddress

\* C25: networkUpdateOVNChassis returns nil and stores the runChassis it
\* computed on every heartbeat, also when the restart it called failed; after
\* a failed restart no restart is called while runChassis stays the same.
C25_StoredAlsoOnFailure ==
    [][HeartbeatStep =>
          /\ ovnErr' = "nil"
          /\ networkOVNChassis' = BoolPtr(ExpectedRun(heartbeatData'))
          /\ (restartFailed /\ ExpectedRun(heartbeatData') = lastRun) => ~restarted']_vars

\* A restart failed, and the heartbeat after it, with the same runChassis,
\* called none.
C25_Witness ==
    /\ failedEver /\ ~restarted /\ ~restartFailed /\ hbCount >= 3
    /\ networkOVNChassis = BoolPtr(lastRun)

\* ---------------------------------------------------------------------
\* The ploop driver (specification SpecPloop).
\* ---------------------------------------------------------------------
DriverStep(op) == ops' = ops + 1 /\ lastOp' = op

\* C26: UnmountVolume unmounts the image only when the reference count
\* after its decrement is 0; while references remain it returns ErrInUse and
\* leaves the image mounted; so the image is never unmounted while a caller
\* that mounted it has not called UnmountVolume.  A call that did not get
\* the mount lock is left aside.
C26_NoUnmountWhileHeld ==
    [][(DriverStep("UnmountVolume") /\ lastErr' # "error") =>
          /\ refCount' = (IF refCount > 0 THEN refCount - 1 ELSE 0)
          /\ refCount' > 0 => (lastErr' = ErrInUse /\ mounted' = mounted)
          /\ (mounted /\ ~mounted') => (refCount' = 0 /\ counted' = 0)]_vars

\* C27: whenever MountVolume returns nil the image is mounted and the
\* reference count has grown by exactly one.
C27_NilMountIsCounted ==
    [][(DriverStep("MountVolume") /\ lastErr' = "nil") =>
          (mounted' /\ refCount' = refCount + 1)]_vars

\* C28: CreateVolume changes nothing when the mount path exists already; when
\* it fails at a later step the volume directory is gone on return, and the
\* directory is there only when CreateVolume returned success.
C28_FailedCreateRemovesDir ==
    [][DriverStep("CreateVolume") =>
          /\ failedAt' = "exists" =>
                UNCHANGED <<dirExists, diskCreated, mounted, handles, refCount>>
          /\ failedAt' # "exists" => (dirExists' = (lastErr' = "nil"))]_vars

\* C29: on every return of a CreateVolume that got past the path check, the
\* image is not mounted and the disk handle it opened is closed.
C29_CreateLeavesNothingOpen ==
    [][(DriverStep("CreateVolume") /\ failedAt' # "exists") =>
          (~mounted' /\ handles' = handles)]_vars
====
